---------------------------- MODULE Spec2Model ----------------------------
(* LearningAgent of smartcab/agent.py: the Q-table, the epsilon-greedy      *)
(* choice, the one-step learning rule and the per-trial schedule.           *)
(*                                                                          *)
(* Numbers.  Q-values and rewards are held in units of 1/Scale, alpha in    *)
(* units of 1/AlphaDen and epsilon in units of 1/EpsScale.  Scale is a      *)
(* power of two large enough that MaxLearn writes of learn() are exact, as  *)
(* they are in binary floating point.                                       *)
EXTENDS Integers, Sequences, FiniteSets, TLC

VARIABLES learning, alpha0, valid_actions, Q, epsilon, alpha, t,
          state, next_waypoint, last, ntrain, nlearn

vars == <<learning, alpha0, valid_actions, Q, epsilon, alpha, t,
          state, next_waypoint, last, ntrain, nlearn>>

(***************************************************************************)
(* Bounds of the model                                                     *)
(***************************************************************************)
MaxT == 2
MaxLearn == 1

RECURSIVE Pow2(_)
Pow2(n) == IF n = 0 THEN 1 ELSE 2 * Pow2(n - 1)

Scale == Pow2(MaxLearn)
AlphaDen == 2
EpsScale == 1000000

(***************************************************************************)
(* Python values                                                           *)
(***************************************************************************)
PyNone == "<None>"

\* str(s) of a value that is None or a str
Str(s) == IF s = PyNone THEN "None" ELSE s

\* env.valid_actions, read at construction (agent.py:15)
EnvValidActions == <<PyNone, "forward", "left", "right">>

\* the keys createQ gives a row (agent.py:70), in the order of the literal
RowActions == <<PyNone, "forward", "left", "right">>

SeqRange(s) == {s[i] : i \in 1..Len(s)}

\* the percepts the environment and the planner hand to build_state
Percepts ==
    { [waypoint |-> "forward", right |-> PyNone, left |-> PyNone, oncoming |-> PyNone],
      [waypoint |-> PyNone,    right |-> PyNone, left |-> PyNone, oncoming |-> "left"] }

\* the rewards env.act returns, in units of 1/Scale
Rewards == {-1 * Scale, 2 * Scale}

\* the values of the constructor's alpha, in units of 1/AlphaDen
Alphas == {1, 2}

NoState == [kind |-> "none", items |-> <<>>]

(***************************************************************************)
(* build_state                                                             *)
(***************************************************************************)
buildString(s) == IF s = PyNone THEN PyNone ELSE Str(s)

\* the list comprehension of agent.py:53 makes the state a list
build_state(p) ==
    [kind  |-> "list",
     items |-> <<buildString(p.waypoint), buildString(p.right),
                 buildString(p.left), buildString(p.oncoming)>>]

\* the same four items as a tuple: what a caller passes to use a state as a key
AsTuple(s) == [kind |-> "tuple", items |-> s.items]

\* hash(state): a list is unhashable, a tuple of None and str is hashable
Hashable(s) == s.kind = "tuple"

\* the states a caller hands to createQ, get_maxQ, choose_action and learn when
\* it calls them on their own: usable keys (update covers the list of build_state)
CallStates == {AsTuple(build_state(p)) : p \in Percepts}

(***************************************************************************)
(* The Q-table: a dict of dicts                                            *)
(***************************************************************************)
ZeroRow == [a \in SeqRange(RowActions) |-> 0]

\* dict.get(key, default) and dict[key] = value, on a hashable key
DictGet(d, k, default) == IF k \in DOMAIN d THEN d[k] ELSE default
DictSet(d, k, v) == [x \in (DOMAIN d) \cup {k} |-> IF x = k THEN v ELSE d[x]]

\* the error of the lookup self.Q[state], "none" when it succeeds
LookupErr(Qt, s) ==
    IF ~Hashable(s) THEN "TypeError"
    ELSE IF s \notin DOMAIN Qt THEN "KeyError"
    ELSE "none"

\* createQ with a row that lacks an action
createQ_partial(Qt, lrn, s) ==
    IF ~lrn THEN [Q |-> Qt, err |-> "none"]
    ELSE IF ~Hashable(s) THEN [Q |-> Qt, err |-> "TypeError"]
    ELSE [Q |-> DictSet(Qt, s, DictGet(Qt, s, [a \in {PyNone, "forward", "left"} |-> 0])),
          err |-> "none"]

\* createQ that assigns the zero row whether or not the state is present
createQ_overwrite(Qt, lrn, s) ==
    IF ~lrn THEN [Q |-> Qt, err |-> "none"]
    ELSE IF ~Hashable(s) THEN [Q |-> Qt, err |-> "TypeError"]
    ELSE [Q |-> DictSet(Qt, s, ZeroRow), err |-> "none"]

\* createQ that rebinds the table to a dict holding the one state
createQ_replace(Qt, lrn, s) ==
    IF ~lrn THEN [Q |-> Qt, err |-> "none"]
    ELSE IF ~Hashable(s) THEN [Q |-> Qt, err |-> "TypeError"]
    ELSE [Q |-> DictSet(<<>>, s, DictGet(Qt, s, ZeroRow)), err |-> "none"]

\* createQ that does not test self.learning
createQ_always(Qt, lrn, s) ==
    IF ~Hashable(s) THEN [Q |-> Qt, err |-> "TypeError"]
    ELSE [Q |-> DictSet(Qt, s, DictGet(Qt, s, ZeroRow)), err |-> "none"]

createQ(Qt, lrn, s) ==
    IF ~lrn THEN [Q |-> Qt, err |-> "none"]
    ELSE IF ~Hashable(s) THEN [Q |-> Qt, err |-> "TypeError"]
    ELSE [Q |-> DictSet(Qt, s, DictGet(Qt, s, ZeroRow)), err |-> "none"]

NegInf == -1000000

RECURSIVE MaxLoop(_, _, _)
MaxLoop(row, todo, maxQ) ==
    IF todo = {} THEN maxQ
    ELSE LET a == CHOOSE x \in todo : TRUE
         IN  MaxLoop(row, todo \ {a}, IF maxQ < row[a] THEN row[a] ELSE maxQ)

\* get_maxQ that returns the value of the row's first action
get_maxQ_first(Qt, s) == Qt[s][RowActions[1]]

\* get_maxQ on a state whose lookup succeeds
get_maxQ(Qt, s) == MaxLoop(Qt[s], DOMAIN Qt[s], NegInf)


\* a choice that always takes the same element
RandomChoice_fixed(S) ==
    IF S = {} THEN {[action |-> PyNone, err |-> "IndexError"]}
    ELSE {[action |-> CHOOSE a \in S : TRUE, err |-> "none"]}

\* random.choice(seq): IndexError on an empty sequence, else any element
RandomChoice(S) ==
    IF S = {} THEN {[action |-> PyNone, err |-> "IndexError"]}
    ELSE {[action |-> a, err |-> "none"] : a \in S}

\* `comp < self.epsilon` with comp = random.random (agent.py:83,85): comp is the
\* function object, never a number drawn from it.  CPython 2 orders a number
\* below every non-number, so the comparison is False whatever epsilon is;
\* Python 3 raises TypeError.  No build yields True.
FuncLessNumber(eps) == {"False", "TypeError"}

\* the actions of the row of s whose value is the row's maximum (agent.py:88-92)
BestActions(Qt, s) == {a \in DOMAIN Qt[s] : get_maxQ(Qt, s) = Qt[s][a]}

Exploit(Qt, s) ==
    IF LookupErr(Qt, s) # "none"
    THEN {[action |-> PyNone, err |-> LookupErr(Qt, s)]}
    ELSE RandomChoice(BestActions(Qt, s))

\* the possible outcomes of choose_action: the action returned, or the error raised
choose_action(Qt, lrn, eps, va, s) ==
    IF lrn
    THEN UNION { IF c = "TypeError" THEN {[action |-> PyNone, err |-> "TypeError"]}
                 ELSE IF c = "True" THEN RandomChoice(SeqRange(va))
                 ELSE Exploit(Qt, s)
                 : c \in FuncLessNumber(eps) }
    ELSE RandomChoice(SeqRange(va))

\* the rule with the reward assigned whatever alpha is
LearnValue_overwrite(old, al, reward) == reward

\* the rule with the correction subtracted
LearnValue_sign(old, al, reward) == old - (al * (reward - old)) \div AlphaDen

\* Q[state][action] + alpha * (reward - Q[state][action]), alpha in 1/AlphaDen
LearnValue(old, al, reward) == old + (al * (reward - old)) \div AlphaDen

learn(Qt, lrn, al, s, a, reward) ==
    IF ~lrn THEN [Q |-> Qt, err |-> "none", wrote |-> FALSE]
    ELSE IF LookupErr(Qt, s) # "none"
    THEN [Q |-> Qt, err |-> LookupErr(Qt, s), wrote |-> FALSE]
    ELSE IF a \notin DOMAIN Qt[s] THEN [Q |-> Qt, err |-> "KeyError", wrote |-> FALSE]
    ELSE [Q |-> [Qt EXCEPT ![s][a] = LearnValue(Qt[s][a], al, reward)],
          err |-> "none", wrote |-> TRUE]

(***************************************************************************)
(* The schedule: math.fabs(math.cos(alpha * t))                            *)
(***************************************************************************)
Abs(x) == IF x < 0 THEN -x ELSE x

\* the Taylor series of cos(k / AlphaDen) in units of 1/EpsScale: mag is the
\* magnitude of term n, summed with alternating sign until it vanishes
RECURSIVE CosSum(_, _, _, _)
CosSum(k, n, mag, acc) ==
    IF mag = 0 THEN acc
    ELSE CosSum(k, n + 1,
                (mag * k * k) \div (AlphaDen * AlphaDen * (2 * n + 1) * (2 * n + 2)),
                IF n % 2 = 0 THEN acc + mag ELSE acc - mag)

Cos(k) == CosSum(k, 0, EpsScale, 0)

\* reset whose testing branch leaves alpha as it is
reset_keeps_alpha(testing, eps, al, tt) ==
    IF testing
    THEN [epsilon |-> 0, alpha |-> al, t |-> tt]
    ELSE [epsilon |-> Abs(Cos(al * (tt + 1))), alpha |-> al, t |-> tt + 1]

\* reset that counts testing trials too
reset_counts_all(testing, eps, al, tt) ==
    IF testing
    THEN [epsilon |-> 0, alpha |-> 0, t |-> tt + 1]
    ELSE [epsilon |-> Abs(Cos(al * (tt + 1))), alpha |-> al, t |-> tt + 1]

\* reset that takes the cosine before it counts the trial
reset_stale_t(testing, eps, al, tt) ==
    IF testing
    THEN [epsilon |-> 0, alpha |-> 0, t |-> tt]
    ELSE [epsilon |-> Abs(Cos(al * tt)), alpha |-> al, t |-> tt + 1]

\* reset that assigns alpha = 0 outside the test of `testing`
reset_zeroes_alpha(testing, eps, al, tt) ==
    IF testing
    THEN [epsilon |-> 0, alpha |-> 0, t |-> tt]
    ELSE [epsilon |-> Abs(Cos(al * (tt + 1))), alpha |-> 0, t |-> tt + 1]

\* the fields reset assigns (agent.py:33-38)
reset(testing, eps, al, tt) ==
    IF testing
    THEN [epsilon |-> 0, alpha |-> 0, t |-> tt]
    ELSE [epsilon |-> Abs(Cos(al * (tt + 1))), alpha |-> al, t |-> tt + 1]

(***************************************************************************)
(* update: one time step                                                   *)
(***************************************************************************)
\* the outcomes of update() on percept p when env.act answers reward: the
\* table and attributes it leaves, the phases it ran and the error that
\* ended it ("none" when it returned)
update(Qt, lrn, eps, al, va, st, nw, p, reward) ==
    LET s == build_state(p)
        c == createQ(Qt, lrn, s)
    IN  IF c.err # "none"
        THEN {[Q |-> c.Q, state |-> st, next_waypoint |-> nw, key |-> s,
               action |-> PyNone, reward |-> 0, err |-> c.err, wrote |-> FALSE,
               trace |-> <<"build_state", "createQ">>]}
        ELSE UNION {
            IF ch.err # "none"
            THEN {[Q |-> c.Q, state |-> s, next_waypoint |-> p.waypoint, key |-> s,
                   action |-> PyNone, reward |-> 0, err |-> ch.err, wrote |-> FALSE,
                   trace |-> <<"build_state", "createQ", "choose_action">>]}
            ELSE LET l == learn(c.Q, lrn, al, s, ch.action, reward)
                 IN  {[Q |-> l.Q, state |-> s, next_waypoint |-> p.waypoint, key |-> s,
                       action |-> ch.action, reward |-> reward, err |-> l.err,
                       wrote |-> l.wrote,
                       trace |-> <<"build_state", "createQ", "choose_action",
                                   "act", "learn">>]}
            : ch \in choose_action(c.Q, lrn, eps, va, s) }

(***************************************************************************)
(* The state machine                                                       *)
(***************************************************************************)
Call(op, key, action, reward, ret, err, trace) ==
    [op |-> op, key |-> key, action |-> action, reward |-> reward, ret |-> ret,
     err |-> err, trace |-> trace]

\* LearningAgent.__init__ (agent.py:12-23) with env.valid_actions the four actions
Init ==
    /\ learning \in BOOLEAN
    /\ alpha0 \in Alphas
    /\ valid_actions = EnvValidActions
    /\ Q = <<>>
    /\ epsilon = EpsScale
    /\ alpha = alpha0
    /\ t = 0
    /\ state = NoState
    /\ next_waypoint = PyNone
    /\ last = Call("init", NoState, PyNone, 0, 0, "none", <<>>)
    /\ ntrain = 0
    /\ nlearn = 0

Reset ==
    \E testing \in BOOLEAN :
        LET r == reset(testing, epsilon, alpha, t)
        IN  /\ testing \/ t < MaxT
            /\ epsilon' = r.epsilon
            /\ alpha' = r.alpha
            /\ t' = r.t
            /\ ntrain' = IF testing THEN ntrain ELSE ntrain + 1
            /\ last' = Call(IF testing THEN "reset_testing" ELSE "reset_training",
                            NoState, PyNone, 0, 0, "none", <<>>)
            /\ UNCHANGED <<learning, alpha0, valid_actions, Q, state, next_waypoint, nlearn>>

Update ==
    \E p \in Percepts, reward \in Rewards :
        \E u \in update(Q, learning, epsilon, alpha, valid_actions, state,
                        next_waypoint, p, reward) :
            /\ u.wrote => nlearn < MaxLearn
            /\ Q' = u.Q
            /\ state' = u.state
            /\ next_waypoint' = u.next_waypoint
            /\ nlearn' = IF u.wrote THEN nlearn + 1 ELSE nlearn
            /\ last' = Call("update", u.key, u.action, u.reward, 0, u.err, u.trace)
            /\ UNCHANGED <<learning, alpha0, valid_actions, epsilon, alpha, t, ntrain>>

\* createQ called on its own
CreateQCall ==
    \E s \in CallStates :
        LET c == createQ(Q, learning, s)
        IN  /\ Q' = c.Q
            /\ last' = Call("createQ", s, PyNone, 0, 0, c.err, <<>>)
            /\ UNCHANGED <<learning, alpha0, valid_actions, epsilon, alpha, t,
                           state, next_waypoint, ntrain, nlearn>>

\* get_maxQ called on its own
GetMaxQCall ==
    \E s \in CallStates :
        /\ last' = Call("get_maxQ", s, PyNone, 0,
                        IF LookupErr(Q, s) = "none" THEN get_maxQ(Q, s) ELSE 0,
                        LookupErr(Q, s), <<>>)
        /\ UNCHANGED <<learning, alpha0, valid_actions, Q, epsilon, alpha, t,
                       state, next_waypoint, ntrain, nlearn>>

\* choose_action called on its own, on the state of the current percept
ChooseActionCall ==
    \E p \in Percepts, s \in CallStates :
        \E ch \in choose_action(Q, learning, epsilon, valid_actions, s) :
            /\ s.items = build_state(p).items
            /\ state' = s
            /\ next_waypoint' = p.waypoint
            /\ last' = Call("choose_action", s, ch.action, 0, 0, ch.err, <<>>)
            /\ UNCHANGED <<learning, alpha0, valid_actions, Q, epsilon, alpha, t,
                           ntrain, nlearn>>

\* learn called on its own
LearnCall ==
    \E s \in CallStates, a \in SeqRange(RowActions), reward \in Rewards :
        LET l == learn(Q, learning, alpha, s, a, reward)
        IN  /\ l.wrote => nlearn < MaxLearn
            /\ Q' = l.Q
            /\ nlearn' = IF l.wrote THEN nlearn + 1 ELSE nlearn
            /\ last' = IF l.err = "none"
                       THEN Call("learn", s, a, reward, 0, "none", <<>>)
                       ELSE Call("learn", s, PyNone, 0, 0, l.err, <<>>)
            /\ UNCHANGED <<learning, alpha0, valid_actions, epsilon, alpha, t,
                           state, next_waypoint, ntrain>>

Next ==
    \/ Reset
    \/ Update
    \/ CreateQCall
    \/ GetMaxQCall
    \/ ChooseActionCall
    \/ LearnCall

Spec == Init /\ [][Next]_vars

\* the agent constructed in an environment whose valid_actions is empty
InitEmpty ==
    /\ learning \in BOOLEAN
    /\ alpha0 \in Alphas
    /\ valid_actions = <<>>
    /\ Q = <<>>
    /\ epsilon = EpsScale
    /\ alpha = alpha0
    /\ t = 0
    /\ state = NoState
    /\ next_waypoint = PyNone
    /\ last = Call("init", NoState, PyNone, 0, 0, "none", <<>>)
    /\ ntrain = 0
    /\ nlearn = 0

SpecEmpty == InitEmpty /\ [][Next]_vars

(***************************************************************************)
(* Properties                                                              *)
(***************************************************************************)
FourActions == {PyNone, "forward", "left", "right"}

\* a is an action of the row of s with no larger value in the row
IsMaximal(s, a) == \A b \in DOMAIN Q[s] : Q[s][b] <= Q[s][a]

\* the actions choose_action can return on s in the current state
Returned(s) ==
    {o.action : o \in {x \in choose_action(Q, learning, epsilon, valid_actions, s) :
                       x.err = "none"}}

C2_FullRows == \A s \in DOMAIN Q : DOMAIN Q[s] = FourActions

\* two rows, one of them written by learn
C2_Witness ==
    /\ Cardinality(DOMAIN Q) = 2
    /\ \E s \in DOMAIN Q : \E a \in DOMAIN Q[s] : Q[s][a] # 0
    /\ last.op = "learn" /\ last.err = "none"

\* C3: in learning mode createQ(s) on a state absent from the table adds a
\* row of four zeros and leaves every other row as it was; on a state that is
\* present it changes nothing.
C3_CreateOnce ==
    [][ (learning /\ last'.op = "createQ") =>
          /\ last'.err = "none"
          /\ IF last'.key \in DOMAIN Q
             THEN Q' = Q
             ELSE /\ DOMAIN Q' = DOMAIN Q \cup {last'.key}
                  /\ \A a \in FourActions : Q'[last'.key][a] = 0
                  /\ \A s \in DOMAIN Q : Q'[s] = Q[s]
      ]_vars

\* createQ has just been called on a state whose row holds a learned value
C3_Witness ==
    /\ learning /\ last.op = "createQ" /\ last.err = "none"
    /\ \E a \in FourActions : Q[last.key][a] # 0

\* C4: no step removes a key of the Q-table.
C4_KeysNeverShrink == [][\A s \in DOMAIN Q : s \in DOMAIN Q']_vars

\* a reset in a testing trial over a table of two rows
C4_Witness ==
    /\ Cardinality(DOMAIN Q) = 2 /\ last.op = "reset_testing" /\ t >= 1

\* C5: for an agent constructed with learning=False the Q-table is empty in
\* every state, and every update() runs to its end and hands env.act an
\* action of valid_actions.  The table being empty, a lookup in it would have
\* raised: the step completing shows that none was made.
C5_NonLearningEmpty ==
    ~learning =>
        /\ Q = <<>>
        /\ last.op = "update" =>
              /\ last.err = "none"
              /\ last.action \in SeqRange(valid_actions)
              /\ last.trace = <<"build_state", "createQ", "choose_action", "act", "learn">>

\* a non-learning agent has completed an update() in its second trial
C5_Witness ==
    /\ ~learning /\ last.op = "update" /\ last.err = "none" /\ t = 2
    /\ last.action = "left"

\* C6: in learning mode with epsilon = 0 an action that choose_action returns
\* has the largest value of its state's row.
C6_ExploitIsMaximal ==
    (learning /\ epsilon = 0 /\ last.op = "choose_action" /\ last.err = "none") =>
        /\ last.key \in DOMAIN Q
        /\ IsMaximal(last.key, last.action)

\* choose_action has answered with epsilon = 0 on a row that holds a smaller value
C6_Witness ==
    /\ learning /\ epsilon = 0 /\ last.op = "choose_action" /\ last.err = "none"
    /\ \E b \in DOMAIN Q[last.key] : Q[last.key][b] < Q[last.key][last.action]

\* C7: in learning mode with epsilon = 1 (the draw is always below epsilon)
\* every one of the four valid actions is a possible result of choose_action
\* on every state of the table, an action below the row's maximum included.
C7_ExploresAll ==
    (learning /\ epsilon = EpsScale) =>
        \A s \in DOMAIN Q : SeqRange(valid_actions) \subseteq Returned(s)

\* C8: under exploitation in learning mode every action whose value is the
\* row's maximum is a possible result of choose_action: no fixed order breaks
\* a tie, and on a row of four zeros all four actions can be returned.
C8_TiesAllPossible ==
    learning =>
        \A s \in DOMAIN Q : {a \in FourActions : IsMaximal(s, a)} \subseteq Returned(s)

\* choose_action has answered with an action that is not the first of several
\* maximal ones, on a row that also holds a smaller value
C8_Witness ==
    /\ learning /\ last.op = "choose_action" /\ last.err = "none"
    /\ last.key \in DOMAIN Q
    /\ last.action = "right"
    /\ IsMaximal(last.key, "forward")
    /\ \E b \in FourActions : Q[last.key][b] < Q[last.key][last.action]

\* C9: in learning mode an update() step sets the entry of (the step's state,
\* the action chosen) to old + alpha * (reward - old) for the reward env.act
\* returned, and changes no other entry.
C9_UpdateLearns ==
    [][ (learning /\ last'.op = "update") =>
          /\ last'.err = "none"
          /\ last'.key \in DOMAIN Q'
          /\ Q'[last'.key][last'.action] =
                 LearnValue(DictGet(Q, last'.key, ZeroRow)[last'.action], alpha,
                            last'.reward)
          /\ \A s \in DOMAIN Q : \A a \in DOMAIN Q[s] :
                 (s # last'.key \/ a # last'.action) => Q'[s][a] = Q[s][a]
      ]_vars

\* C10: t is the number of training resets made so far, so it starts at 0,
\* grows by one with each reset(testing=False) and is left alone by
\* reset(testing=True) and by update().
C10_TrialCounter == t = ntrain /\ t >= 0

\* two training trials and a testing trial have begun, and a step was taken
C10_Witness ==
    /\ t = 2 /\ alpha = 0 /\ epsilon = 0 /\ last.op = "update"

\* |cos(k / 2)| for k = 0, 1, ..., in millionths, as the C library rounds it
AbsCosRef ==
    <<1000000, 877583, 540302, 70737, 416147, 801144, 989992, 936457, 653644,
      210796, 283662, 708670, 960170>>

\* x and y differ by at most 20 millionths: equal to four decimal places
Near(x, y) == Abs(x - y) <= 20

\* C11 as stated: after every reset(testing=False) epsilon is
\* |cos(alpha0 * t)| for the alpha the agent was constructed with.
C11_EpsilonFromAlpha0 ==
    last.op = "reset_training" => Near(epsilon, AbsCosRef[alpha0 * t + 1])

\* C11 amended: after every reset(testing=False) epsilon is |cos(alpha * t)|
\* for the agent's current alpha: alpha0 while no reset(testing=True) has been
\* made, and 0 after one, when epsilon is |cos(0)| = 1.
C11_EpsilonFromAlpha ==
    last.op = "reset_training" =>
        /\ alpha \in {0, alpha0}
        /\ Near(epsilon, AbsCosRef[alpha * t + 1])
        /\ alpha = 0 => epsilon = EpsScale

\* the second training trial of an agent built with alpha = 0.5 has begun:
\* epsilon is |cos(1.0)| = 0.5403
C11_Witness ==
    /\ last.op = "reset_training" /\ t = 2 /\ alpha0 = 1 /\ alpha = alpha0
    /\ Near(epsilon, 540302)

\* C12: epsilon, alpha and t change only in reset: update() and the other
\* methods leave all three as they are, and reset(testing=False) leaves alpha
\* as it is.
C12_ParametersPerTrial ==
    [][ /\ last'.op \notin {"reset_training", "reset_testing"} =>
               (epsilon' = epsilon /\ alpha' = alpha /\ t' = t)
        /\ last'.op = "reset_training" => alpha' = alpha
      ]_vars

\* an update() inside the first training trial, epsilon strictly between 0 and 1
C12_Witness ==
    /\ last.op = "update" /\ t = 1 /\ alpha = alpha0
    /\ epsilon > 0 /\ epsilon < EpsScale

AllPhases == <<"build_state", "createQ", "choose_action", "act", "learn">>

\* C13: in learning mode no table access of an update() step fails: when the
\* step is over the row of the step's state is in the table, the entry of the
\* chosen action is in that row, and no KeyError or TypeError ended the step.
C13_RowPresentInStep ==
    (learning /\ last.op = "update") =>
        /\ last.err \notin {"KeyError", "TypeError"}
        /\ last.key \in DOMAIN Q
        /\ last.action \in DOMAIN Q[last.key]

\* C14: every update(), learning or not, runs build_state, createQ,
\* choose_action, env.act and learn in this order, with env.act run exactly
\* once, so that learn writes after the reward is known.
C14_PhasesInOrder ==
    last.op = "update" =>
        /\ last.trace = AllPhases
        /\ Cardinality({i \in 1..Len(last.trace) : last.trace[i] = "act"}) = 1

\* C15: with valid_actions empty every call of choose_action ends in an
\* error, in learning and in non-learning mode.
C15_EmptyFails ==
    (valid_actions = <<>> /\ last.op = "choose_action") => last.err # "none"

\* C16: the state update() builds for a learning agent is a hashable key, and
\* the step runs to its end without an error.
C16_StateIsHashableKey ==
    (learning /\ last.op = "update") => (Hashable(last.key) /\ last.err = "none")

\* C17: a reset(testing=True) leaves alpha = 0, and once alpha is 0 it stays
\* 0 in every step, no step changes a value the table holds, and a
\* reset(testing=False) gives epsilon = 1.
C17_TestingIrreversible ==
    [][ /\ last'.op = "reset_testing" => alpha' = 0
        /\ alpha = 0 =>
              /\ alpha' = 0
              /\ \A s \in DOMAIN Q : s \in DOMAIN Q' /\ Q'[s] = Q[s]
              /\ last'.op = "reset_training" => epsilon' = EpsScale
      ]_vars

\* learn has run without error in a training trial that follows a testing
\* trial, on a reward different from the value the entry held and still holds
C17_Witness ==
    /\ learning /\ alpha = 0 /\ alpha0 # 0 /\ epsilon = EpsScale /\ t >= 1
    /\ last.op = "learn" /\ last.err = "none"
    /\ last.reward # Q[last.key][last.action]

=============================================================================
